---- MODULE Spec2Model ----
(***************************************************************************)
(* Model of the photo gallery of src/script.js: the carousel index, the    *)
(* autoplay interval timer, the deferred main-image swap, the touch swipe  *)
(* detector and the lightbox overlay.                                      *)
(*                                                                         *)
(* A photo is identified by its position 0 .. photos-1 in                  *)
(* galleryState.photos; an image element "shows" a photo by holding that   *)
(* position (NoPhoto before anything was assigned to it).  The page is the *)
(* complete one: every optional element the script looks up is present,    *)
(* there is one thumbnail per photo, the photos carry no alt text (so the  *)
(* `Photo n` fallback is what is displayed) and the lightbox is the one    *)
(* createLightboxModal builds.                                             *)
(*                                                                         *)
(* Time: interval timers carry the milliseconds left until they are due.   *)
(* Elapse lets Quantum milliseconds pass; a due timer may fire late (a     *)
(* user event may be handled first) but never early.  The swap timeouts    *)
(* all have the same delay (transitionDuration / 2), so they fire in        *)
(* creation order; that delay is far below Quantum and is not tracked.     *)
(***************************************************************************)
EXTENDS Integers, Sequences, FiniteSets, TLC

\* ---------------------------------------------------------------- bounds
MaxCount == 3          \* photos in the page: 0 .. MaxCount
MaxPending == 2        \* main-image swaps waiting for their timeout
MaxTimers == 2         \* interval timer ids 1 .. MaxTimers
TicksPerInterval == 1  \* Elapse steps that make up one autoplay interval

\* ------------------------------------------------- galleryConfig literals
autoplayInterval == 5000
swipeThreshold == 50

Quantum == autoplayInterval \div TicksPerInterval
NoPhoto == 0 - 1
TouchXs == {0, 50, 101}
Keys == {"ArrowLeft", "ArrowRight", " ", "Escape", "Enter"}
GoToArgs == ((0 - 1) .. MaxCount) \cup {MaxCount + 2}

VARIABLES
  \* galleryConfig
  autoplay, enableKeyboard, enableTouch,
  \* the page before the script runs
  galleryContainer,    \* is there a [data-gallery] element
  domImgs,             \* number of [data-gallery] img elements
  \* script position
  phase,               \* "loading" | "ready" | "refused"
  listening,           \* setupEventListeners has added the listeners
  \* galleryState
  currentIndex, isPlaying, touchStartX, touchEndX, photos, autoplayIntervalId,
  \* timers of the page
  timers,              \* live setInterval timers: id -> ms until due
  pendingSwaps,        \* setTimeout closures of updateMainImage, oldest first
  \* presentation surfaces
  mainSrc, mainAlt, mainOpacity, activeThumbs, counterText, progressWidth,
  playBtnShown,        \* "unset" | "play" | "pause": which button is displayed
  lightboxDisplay, lightboxImage, bodyOverflow,
  \* observation only
  quietMs,             \* ms since a user event last navigated or toggled autoplay
                       \* (capped at autoplayInterval)
  lastRejected         \* the last event was goTo(i) with i outside 0 .. photos-1

configVars == <<autoplay, enableKeyboard, enableTouch, galleryContainer, domImgs>>
obsVars == <<quietMs, lastRejected>>
progVars == <<phase, listening, currentIndex, isPlaying, touchStartX, touchEndX, photos,
              autoplayIntervalId, timers, pendingSwaps, mainSrc, mainAlt,
              mainOpacity, activeThumbs, counterText, progressWidth,
              playBtnShown, lightboxDisplay, lightboxImage, bodyOverflow>>
vars == <<configVars, progVars, obsVars>>

\* The mutable state as one record, so that a handler is a function on it.
St ==
  [listening |-> listening, currentIndex |-> currentIndex, isPlaying |-> isPlaying,
   touchStartX |-> touchStartX, touchEndX |-> touchEndX, photos |-> photos,
   autoplayIntervalId |-> autoplayIntervalId, timers |-> timers,
   pendingSwaps |-> pendingSwaps, mainSrc |-> mainSrc, mainAlt |-> mainAlt,
   mainOpacity |-> mainOpacity, activeThumbs |-> activeThumbs,
   counterText |-> counterText, progressWidth |-> progressWidth,
   playBtnShown |-> playBtnShown, lightboxDisplay |-> lightboxDisplay,
   lightboxImage |-> lightboxImage, bodyOverflow |-> bodyOverflow]

\* The record s becomes the next state, within the bounds of the model.
Commit(s) ==
  /\ Len(s.pendingSwaps) <= MaxPending
  /\ DOMAIN s.timers \subseteq 1 .. MaxTimers
  /\ listening' = s.listening
  /\ currentIndex' = s.currentIndex
  /\ isPlaying' = s.isPlaying
  /\ touchStartX' = s.touchStartX
  /\ touchEndX' = s.touchEndX
  /\ photos' = s.photos
  /\ autoplayIntervalId' = s.autoplayIntervalId
  /\ timers' = s.timers
  /\ pendingSwaps' = s.pendingSwaps
  /\ mainSrc' = s.mainSrc
  /\ mainAlt' = s.mainAlt
  /\ mainOpacity' = s.mainOpacity
  /\ activeThumbs' = s.activeThumbs
  /\ counterText' = s.counterText
  /\ progressWidth' = s.progressWidth
  /\ playBtnShown' = s.playBtnShown
  /\ lightboxDisplay' = s.lightboxDisplay
  /\ lightboxImage' = s.lightboxImage
  /\ bodyOverflow' = s.bodyOverflow

\* -------------------------------------------------------- timers (browser)
Without(f, id) == [i \in (DOMAIN f) \ {id} |-> f[i]]

\* Browser timer ids are never reused while live.  Only equality with the
\* stored handle is ever observed, so the smallest id that is not live
\* stands for the fresh one.
FreshId(f) ==
  IF \E i \in 1 .. MaxTimers : i \notin DOMAIN f
  THEN CHOOSE i \in 1 .. MaxTimers :
         /\ i \notin DOMAIN f
         /\ \A j \in 1 .. (i - 1) : j \in DOMAIN f
  ELSE MaxTimers + 1

setInterval(f, ms) == (FreshId(f) :> ms) @@ f

clearInterval(f, id) == IF id \in DOMAIN f THEN Without(f, id) ELSE f

\* ------------------------------------------------------ presentation sync
\* Mutant: a navigation made while a swap is still pending queues no swap.
updateMainImage_Debounced(s) ==
  IF s.currentIndex >= 0 /\ s.currentIndex < s.photos /\ s.pendingSwaps = <<>>
  THEN [s EXCEPT !.mainOpacity = 0,
                 !.pendingSwaps = Append(@, s.currentIndex)]
  ELSE s

updateMainImage(s) ==
  IF s.currentIndex >= 0 /\ s.currentIndex < s.photos
  THEN [s EXCEPT !.mainOpacity = 0,
                 !.pendingSwaps = Append(@, s.currentIndex)]
  ELSE s

\* Mutant: the current thumbnail is marked but the others are not cleared.
updateActiveThumbnail_AddOnly(s) ==
  [s EXCEPT !.activeThumbs =
     @ \cup {i \in 0 .. (s.photos - 1) : i = s.currentIndex}]

updateActiveThumbnail(s) ==
  [s EXCEPT !.activeThumbs = {i \in 0 .. (s.photos - 1) : i = s.currentIndex}]

updatePhotoCounter(s) ==
  [s EXCEPT !.counterText = <<s.currentIndex + 1, s.photos>>]

\* The width is ((currentIndex + 1) / photos.length) * 100 percent, kept as
\* the exact fraction num / den.
updateProgressBar(s) ==
  [s EXCEPT !.progressWidth = [num |-> (s.currentIndex + 1) * 100, den |-> s.photos]]

updateGalleryUI(s) ==
  updateProgressBar(updatePhotoCounter(updateActiveThumbnail(updateMainImage(s))))

\* --------------------------------------------------------------- autoplay
\* Mutant: no early return when already playing.
startAutoplay_NoGuard(s) ==
  [s EXCEPT !.isPlaying = TRUE,
            !.playBtnShown = "pause",
            !.autoplayIntervalId = FreshId(s.timers),
            !.timers = setInterval(s.timers, autoplayInterval)]

startAutoplay(s) ==
  IF s.isPlaying THEN s
  ELSE LET t == setInterval(s.timers, autoplayInterval)
       IN [s EXCEPT !.isPlaying = TRUE,
                    !.playBtnShown = "pause",
                    !.autoplayIntervalId = FreshId(s.timers),
                    !.timers = t]

\* Mutant: the flag is cleared but the interval is not.
stopAutoplay_NoClear(s) ==
  [s EXCEPT !.isPlaying = FALSE, !.playBtnShown = "play"]

stopAutoplay(s) ==
  [s EXCEPT !.isPlaying = FALSE,
            !.timers = clearInterval(@, s.autoplayIntervalId),
            !.playBtnShown = "play"]

\* Mutant: a navigation leaves the running interval alone.
resetAutoplay_Never(s) == s

\* Mutant: every navigation (re)starts autoplay.
resetAutoplay_Always(s) == startAutoplay(stopAutoplay(s))

\* Mutant: a navigation while playing stops autoplay for good.
resetAutoplay_StopOnly(s) ==
  IF s.isPlaying THEN stopAutoplay(s) ELSE s

resetAutoplay(s) ==
  IF s.isPlaying THEN startAutoplay(stopAutoplay(s)) ELSE s

\* ------------------------------------------------------------- navigation
\* The % of JavaScript: the remainder has the sign of the dividend, and the
\* remainder by 0 is NaN.  NaN compares false with every number; with no
\* photos every index computation ends in this remainder, so NaN stays NaN.
NaN == 0 - 1000

jsRem(a, n) ==
  IF n = 0 THEN NaN
  ELSE IF a >= 0 THEN a % n ELSE 0 - ((0 - a) % n)

\* Mutant: no wraparound.
nextPhoto_NoWrap(s) ==
  resetAutoplay(updateGalleryUI([s EXCEPT !.currentIndex = s.currentIndex + 1]))

\* Mutant: stops at the last photo instead of wrapping.
nextPhoto_Clamp(s) ==
  resetAutoplay(updateGalleryUI(
    [s EXCEPT !.currentIndex =
       IF s.currentIndex + 1 < s.photos THEN s.currentIndex + 1 ELSE s.currentIndex]))

nextPhoto(s) ==
  resetAutoplay(updateGalleryUI(
    [s EXCEPT !.currentIndex = jsRem(s.currentIndex + 1, s.photos)]))

\* Mutant: the length is not added before the remainder is taken.
previousPhoto_NoAdd(s) ==
  resetAutoplay(updateGalleryUI(
    [s EXCEPT !.currentIndex = jsRem(s.currentIndex - 1, s.photos)]))

previousPhoto(s) ==
  resetAutoplay(updateGalleryUI(
    [s EXCEPT !.currentIndex = jsRem(s.currentIndex - 1 + s.photos, s.photos)]))

\* Mutant: the upper bound is inclusive.
goToPhoto_OffByOne(s, index) ==
  IF index >= 0 /\ index <= s.photos
  THEN resetAutoplay(updateGalleryUI([s EXCEPT !.currentIndex = index]))
  ELSE s

goToPhoto(s, index) ==
  IF index >= 0 /\ index < s.photos
  THEN resetAutoplay(updateGalleryUI([s EXCEPT !.currentIndex = index]))
  ELSE s

\* --------------------------------------------------------------- keyboard
handleKeyboard(s, key) ==
  CASE key = "ArrowLeft" -> previousPhoto(s)
    [] key = "ArrowRight" -> nextPhoto(s)
    [] key = " " -> IF s.isPlaying THEN stopAutoplay(s) ELSE startAutoplay(s)
    [] OTHER -> s

\* ------------------------------------------------------------------ touch
handleTouchStart(s, x) == [s EXCEPT !.touchStartX = x]

\* Mutant: a swipe of exactly the threshold already navigates.
detectSwipe_Inclusive(s) ==
  LET diff == s.touchStartX - s.touchEndX
      abs == IF diff < 0 THEN 0 - diff ELSE diff
  IN IF abs >= swipeThreshold
     THEN IF diff > 0 THEN nextPhoto(s) ELSE previousPhoto(s)
     ELSE s

detectSwipe(s) ==
  LET diff == s.touchStartX - s.touchEndX
      abs == IF diff < 0 THEN 0 - diff ELSE diff
  IN IF abs > swipeThreshold
     THEN IF diff > 0 THEN nextPhoto(s) ELSE previousPhoto(s)
     ELSE s

handleTouchEnd(s, x) == detectSwipe([s EXCEPT !.touchEndX = x])

\* --------------------------------------------------------------- lightbox
openLightbox(s, index) ==
  LET g == goToPhoto(s, index)
      shown == IF index >= 0 /\ index < g.photos THEN index ELSE g.lightboxImage
  IN [g EXCEPT !.lightboxImage = shown,
               !.lightboxDisplay = "flex",
               !.bodyOverflow = "hidden"]

\* Mutant: closing the lightbox also pauses the slideshow.
closeLightbox_Pauses(s) ==
  stopAutoplay([s EXCEPT !.lightboxDisplay = "none", !.bodyOverflow = "auto"])

\* Mutant: the lightbox is hidden but the page stays locked.
closeLightbox_KeepsScrollLock(s) == [s EXCEPT !.lightboxDisplay = "none"]

closeLightbox(s) ==
  [s EXCEPT !.lightboxDisplay = "none", !.bodyOverflow = "auto"]

\* The keydown listener setupLightbox adds to the document: three
\* independent ifs, each reading the state the previous one left.
lightboxKeydown(s, key) ==
  IF s.lightboxDisplay # "none"
  THEN LET a == IF key = "Escape" THEN closeLightbox(s) ELSE s
           b == IF key = "ArrowLeft" THEN previousPhoto(a) ELSE a
       IN IF key = "ArrowRight" THEN nextPhoto(b) ELSE b
  ELSE s

\* One keydown event on the document: the listeners run in the order they
\* were added, handleKeyboard (if enabled) before the lightbox listener.
dispatchKeydown(s, key) ==
  lightboxKeydown(IF enableKeyboard THEN handleKeyboard(s, key) ELSE s, key)

\* ------------------------------------------------------------ timer events
\* The setTimeout closure of updateMainImage: it captured currentPhoto and
\* reads galleryState.currentIndex when it runs.
swapMainImage(s) ==
  [s EXCEPT !.mainSrc = Head(s.pendingSwaps),
            !.mainAlt = s.currentIndex + 1,
            !.mainOpacity = 1,
            !.pendingSwaps = Tail(@)]

\* The setInterval callback of startAutoplay; the interval re-arms itself
\* before the callback runs.
autoplayTick(s, id) ==
  nextPhoto([s EXCEPT !.timers = [@ EXCEPT ![id] = autoplayInterval]])

\* ----------------------------------------------------------- initialisation
\* Every listener of the page is added here (setupLightbox included); which
\* of them an event reaches is decided in the actions.
setupEventListeners(s) == [s EXCEPT !.listening = TRUE]

\* Mutant: autoplay is started whatever the option says.
initGallery_IgnoresOption(s) ==
  IF ~galleryContainer THEN s
  ELSE LET p == [s EXCEPT !.photos = domImgs]
       IN IF p.photos = 0 THEN p
          ELSE startAutoplay(updateGalleryUI(setupEventListeners(p)))

\* Mutant: autoplay is started before the page is examined.
initGallery_AutoplayFirst(s) ==
  LET a == IF autoplay THEN startAutoplay(s) ELSE s
  IN IF ~galleryContainer THEN a
     ELSE LET p == [a EXCEPT !.photos = domImgs]
          IN IF p.photos = 0 THEN p
             ELSE updateGalleryUI(setupEventListeners(p))

initGallery(s) ==
  IF ~galleryContainer THEN s
  ELSE LET p == [s EXCEPT !.photos = domImgs]
       IN IF p.photos = 0 THEN p
          ELSE LET u == updateGalleryUI(setupEventListeners(p))
               IN IF autoplay THEN startAutoplay(u) ELSE u

initOk == galleryContainer /\ domImgs > 0

\* ------------------------------------------------------------ observation
navigated(s, t) == Len(t.pendingSwaps) > Len(s.pendingSwaps)

toggled(s, t) == t.isPlaying # s.isPlaying

Observe(t) ==
  quietMs' = IF navigated(St, t) \/ toggled(St, t) THEN 0 ELSE quietMs

Min(a, b) == IF a < b THEN a ELSE b
Max(a, b) == IF a > b THEN a ELSE b

\* ------------------------------------------------------------------ Init
InitState ==
  /\ phase = "loading"
  /\ listening = FALSE
  /\ currentIndex = 0
  /\ isPlaying = FALSE
  /\ touchStartX = 0
  /\ touchEndX = 0
  /\ photos = 0
  /\ autoplayIntervalId = 0
  /\ timers = <<>>
  /\ pendingSwaps = <<>>
  /\ mainSrc = NoPhoto
  /\ mainAlt = 0
  /\ mainOpacity = 1
  /\ activeThumbs = {}
  /\ counterText = <<0, 0>>
  /\ progressWidth = [num |-> 0, den |-> 1]
  /\ playBtnShown = "unset"
  /\ lightboxDisplay = "none"
  /\ lightboxImage = NoPhoto
  /\ bodyOverflow = "unset"
  /\ quietMs = 0
  /\ lastRejected = FALSE

\* The configuration literal of the source, on a page with 0 .. MaxCount photos.
Init ==
  /\ autoplay = TRUE
  /\ enableKeyboard = TRUE
  /\ enableTouch = TRUE
  /\ galleryContainer \in BOOLEAN
  /\ domImgs \in 0 .. MaxCount
  /\ (~galleryContainer => domImgs = 0)
  /\ InitState

\* --------------------------------------------------------------- actions
\* An event of the page once the script has run: it reaches a handler only
\* if the listeners were added.
Dispatch(t) == IF listening THEN t ELSE St

Event(t) ==
  /\ phase # "loading"
  /\ Commit(Dispatch(t))
  /\ Observe(Dispatch(t))
  /\ UNCHANGED <<configVars, phase>>

Handle(t) == Event(t) /\ lastRejected' = FALSE

InitGallery ==
  /\ phase = "loading"
  /\ phase' = IF initOk THEN "ready" ELSE "refused"
  /\ Commit(initGallery(St))
  /\ UNCHANGED <<configVars, obsVars>>

ClickNext == Handle(nextPhoto(St))

ClickPrev == Handle(previousPhoto(St))

GoTo ==
  \E i \in GoToArgs :
    /\ Event(goToPhoto(St, i))
    /\ lastRejected' = (i < 0 \/ i >= photos)

ClickPlay == Handle(startAutoplay(St))

ClickPause == Handle(stopAutoplay(St))

KeyDown == \E k \in Keys : Handle(dispatchKeydown(St, k))

TouchStart ==
  /\ enableTouch
  /\ \E x \in TouchXs : Handle(handleTouchStart(St, x))

TouchEnd ==
  /\ enableTouch
  /\ \E x \in TouchXs : Handle(handleTouchEnd(St, x))

ClickPhoto == \E i \in 0 .. (photos - 1) : Handle(openLightbox(St, i))

LightboxClose ==
  /\ lightboxDisplay # "none"
  /\ Handle(closeLightbox(St))

LightboxNext ==
  /\ lightboxDisplay # "none"
  /\ Handle(nextPhoto(St))

LightboxPrev ==
  /\ lightboxDisplay # "none"
  /\ Handle(previousPhoto(St))

\* A due interval timer fires.  The tick is no manual navigation.
TimerTick ==
  \E id \in DOMAIN timers :
    /\ phase # "loading"
    /\ timers[id] = 0
    /\ Commit(autoplayTick(St, id))
    /\ lastRejected' = FALSE
    /\ UNCHANGED <<configVars, phase, quietMs>>

\* The oldest pending swap timeout fires.
FireSwap ==
  /\ phase # "loading"
  /\ pendingSwaps # <<>>
  /\ Commit(swapMainImage(St))
  /\ lastRejected' = FALSE
  /\ UNCHANGED <<configVars, phase, quietMs>>

\* Quantum ms pass with no event.  Timers that are due fire before more time
\* passes, and a pending swap is due within the quantum.
Elapse ==
  /\ phase # "loading"
  /\ pendingSwaps = <<>>
  /\ \A id \in DOMAIN timers : timers[id] > 0
  /\ timers' = [id \in DOMAIN timers |-> Max(0, timers[id] - Quantum)]
  /\ quietMs' = Min(autoplayInterval, quietMs + Quantum)
  /\ lastRejected' = FALSE
  /\ UNCHANGED <<configVars, phase, listening, currentIndex, isPlaying, touchStartX,
                 touchEndX, photos, autoplayIntervalId, pendingSwaps, mainSrc,
                 mainAlt, mainOpacity, activeThumbs, counterText,
                 progressWidth, playBtnShown, lightboxDisplay, lightboxImage,
                 bodyOverflow>>

Next ==
  \/ InitGallery
  \/ ClickNext
  \/ ClickPrev
  \/ GoTo
  \/ ClickPlay
  \/ ClickPause
  \/ KeyDown
  \/ TouchStart
  \/ TouchEnd
  \/ ClickPhoto
  \/ LightboxClose
  \/ LightboxNext
  \/ LightboxPrev
  \/ TimerTick
  \/ FireSwap
  \/ Elapse

Spec == Init /\ [][Next]_vars

\* Every value of the three boolean options of galleryConfig.
InitCfg ==
  /\ autoplay \in BOOLEAN
  /\ enableKeyboard \in BOOLEAN
  /\ enableTouch \in BOOLEAN
  /\ galleryContainer \in BOOLEAN
  /\ domImgs \in 0 .. MaxCount
  /\ (~galleryContainer => domImgs = 0)
  /\ InitState

\* The page left alone: only the script's own timers run.
NextAuto ==
  \/ InitGallery
  \/ TimerTick
  \/ FireSwap
  \/ Elapse

\* The browser runs the script, lets time pass and fires every due timer.
SpecAuto ==
  /\ InitCfg
  /\ [][NextAuto]_vars
  /\ WF_vars(InitGallery)
  /\ WF_vars(TimerTick)
  /\ WF_vars(FireSwap)
  /\ WF_vars(Elapse)

\* The configuration literal with enableKeyboard switched off.
InitNoKeyboard ==
  /\ autoplay = TRUE
  /\ enableKeyboard = FALSE
  /\ enableTouch = TRUE
  /\ galleryContainer \in BOOLEAN
  /\ domImgs \in 0 .. MaxCount
  /\ (~galleryContainer => domImgs = 0)
  /\ InitState

\* The page in use with keyboard navigation disabled.
SpecNoKeyboard == InitNoKeyboard /\ [][Next]_vars

\* ================================================================ claims
Ready == phase = "ready"
LiveTimers == DOMAIN timers

\* C1: after a successful initialisation the current index is always a
\* valid position: 0 <= currentIndex < photos.length.
C1_IndexInRange == Ready => (currentIndex \in 0 .. (photos - 1))

\* The last photo is current while the lightbox is open and autoplay runs.
C1_Witness ==
  /\ Ready
  /\ photos >= 2
  /\ currentIndex = photos - 1
  /\ lightboxDisplay = "flex"
  /\ isPlaying

\* C2: whenever the lightbox is open, its image is the photo at currentIndex.
C2_LightboxShowsCurrent ==
  (Ready /\ lightboxDisplay # "none") => lightboxImage = currentIndex

\* C3: at most one autoplay timer is live, and one is live exactly when
\* isPlaying is true.
C3_OneTimerIffPlaying ==
  /\ Cardinality(LiveTimers) <= 1
  /\ isPlaying <=> (LiveTimers # {})
  /\ isPlaying => LiveTimers = {autoplayIntervalId}

\* Playing after a navigation-triggered reset, part of the interval elapsed.
C3_Witness ==
  /\ Ready
  /\ isPlaying
  /\ currentIndex > 0
  /\ Cardinality(LiveTimers) = 1
  /\ \E id \in LiveTimers : timers[id] < autoplayInterval

\* C4: while autoplay is stopped, a step that is no user input (a timer
\* tick, a swap timeout, time passing) never changes currentIndex, and no
\* tick happens at all.
C4_NoAdvanceWhileStopped ==
  [][(~isPlaying /\ (TimerTick \/ FireSwap \/ Elapse))
       => (currentIndex' = currentIndex /\ ~TimerTick)]_vars

\* Paused by the user, and a whole interval has passed since.
C4_Witness ==
  /\ Ready
  /\ ~isPlaying
  /\ playBtnShown = "play"
  /\ photos >= 2
  /\ quietMs >= autoplayInterval

\* C5: a timer tick never comes sooner than autoplayInterval after the last
\* manual navigation, and a manual navigation made while autoplay runs
\* leaves the one timer with a full interval to go.
C5_ManualNavRestartsCountdown ==
  [][/\ TimerTick => quietMs >= autoplayInterval
     /\ (isPlaying /\ isPlaying' /\ navigated(St, St') /\ ~TimerTick)
          => \A id \in DOMAIN timers' : timers'[id] = autoplayInterval]_vars

\* A due timer was pre-empted by a manual navigation: autoplay runs, a swap
\* of that navigation is pending, nothing has elapsed since, and the timer
\* has the full interval to go.
C5_Witness ==
  /\ Ready
  /\ isPlaying
  /\ mainSrc # NoPhoto
  /\ pendingSwaps # <<>>
  /\ quietMs = 0
  /\ \A id \in LiveTimers : timers[id] = autoplayInterval

\* C6: goTo with a target outside 0 .. photos-1 changes nothing: not the
\* index, not isPlaying, no presentation surface, and not the countdown of
\* the autoplay timer.
C6_OutOfRangeGoToIsNoOp ==
  [][lastRejected' => UNCHANGED <<progVars, quietMs>>]_vars

\* An out-of-range goTo was just made on three photos at index 0, while the
\* autoplay timer was already due.
C6_Witness ==
  /\ Ready
  /\ lastRejected
  /\ photos = 3
  /\ currentIndex = 0
  /\ isPlaying
  /\ \E id \in LiveTimers : timers[id] = 0

Succ(i, n) == IF i = n - 1 THEN 0 ELSE i + 1
Pred(i, n) == IF i = 0 THEN n - 1 ELSE i - 1

\* C7: next moves the index to (i + 1) mod count and prev to (i - 1 + count)
\* mod count; prev applied right after a next step, and next right after a
\* prev step, give back the index before the step.
C7_NextPrevInverse ==
  [][/\ (Ready /\ ClickNext) =>
          /\ currentIndex' = Succ(currentIndex, photos)
          /\ previousPhoto(St').currentIndex = currentIndex
     /\ (Ready /\ ClickPrev) =>
          /\ currentIndex' = Pred(currentIndex, photos)
          /\ nextPhoto(St').currentIndex = currentIndex]_vars

\* Photo 0 of three is current and its swap is pending while the main image
\* still shows photo 2: the wraparound case.
C7_Witness ==
  /\ Ready
  /\ photos = 3
  /\ currentIndex = 0
  /\ mainSrc = 2
  /\ pendingSwaps = <<0>>

RECURSIVE NextTimes(_, _)
NextTimes(k, s) == IF k = 0 THEN s ELSE NextTimes(k - 1, nextPhoto(s))

\* C8: from every index, count applications of next give the index back and
\* no shorter non-empty run does; with 3 photos from 0 the run is 1, 2, 0.
C8_NextCycle ==
  Ready =>
    /\ NextTimes(photos, St).currentIndex = currentIndex
    /\ \A k \in 1 .. (photos - 1) : NextTimes(k, St).currentIndex # currentIndex
    /\ (photos = 3 /\ currentIndex = 0) =>
         /\ NextTimes(1, St).currentIndex = 1
         /\ NextTimes(2, St).currentIndex = 2
         /\ NextTimes(3, St).currentIndex = 0

\* Three photos: the main image shows 1, then came the navigations to 2 and
\* to 0 whose swaps are pending.
C8_Witness ==
  /\ Ready
  /\ photos = 3
  /\ currentIndex = 0
  /\ mainSrc = 1
  /\ pendingSwaps = <<2, 0>>

\* C9: a close step changes neither currentIndex nor isPlaying, and closing
\* right after the lightbox was opened at k leaves currentIndex = k and
\* isPlaying as it was before the open.
C9_OpenCloseFrame ==
  [][/\ LightboxClose => (currentIndex' = currentIndex /\ isPlaying' = isPlaying)
     /\ \A k \in 0 .. (photos - 1) :
          Handle(openLightbox(St, k)) =>
            /\ closeLightbox(St').currentIndex = k
            /\ closeLightbox(St').isPlaying = isPlaying]_vars

\* The lightbox was opened at a photo other than the first and closed
\* again, with autoplay running.
C9_Witness ==
  /\ Ready
  /\ lightboxDisplay = "none"
  /\ bodyOverflow = "auto"
  /\ lightboxImage = currentIndex
  /\ currentIndex > 0
  /\ isPlaying

\* C10: once no main-image swap is pending, the main image, the active
\* thumbnail, the counter and the progress bar all show currentIndex.
C10_SurfacesAgreeWhenSettled ==
  (Ready /\ pendingSwaps = <<>>) =>
    /\ mainSrc = currentIndex
    /\ mainAlt = currentIndex + 1
    /\ mainOpacity = 1
    /\ activeThumbs = {currentIndex}
    /\ counterText = <<currentIndex + 1, photos>>
    /\ progressWidth = [num |-> (currentIndex + 1) * 100, den |-> photos]

\* All swaps have fired after a navigation away from the first photo.
C10_Witness ==
  /\ Ready
  /\ pendingSwaps = <<>>
  /\ currentIndex > 0
  /\ mainSrc = currentIndex
  /\ activeThumbs = {currentIndex}

\* C11: a touch-end at endX after a touch-start at startX makes exactly one
\* advance if startX - endX > 50, exactly one retreat if startX - endX < -50
\* and no navigation otherwise (a difference of exactly 50 included); the
\* start value is the one the most recent touch-start stored.
C11_SwipeThreshold ==
  [][/\ \A x \in TouchXs :
          (Ready /\ enableTouch /\ Handle(handleTouchEnd(St, x))) =>
            LET diff == touchStartX - x
            IN /\ diff > 50 =>
                    /\ currentIndex' = Succ(currentIndex, photos)
                    /\ Len(pendingSwaps') = Len(pendingSwaps) + 1
               /\ diff < 0 - 50 =>
                    /\ currentIndex' = Pred(currentIndex, photos)
                    /\ Len(pendingSwaps') = Len(pendingSwaps) + 1
               /\ (diff <= 50 /\ diff >= 0 - 50) =>
                    /\ currentIndex' = currentIndex
                    /\ pendingSwaps' = pendingSwaps
     /\ \A x \in TouchXs :
          (Ready /\ enableTouch /\ Handle(handleTouchStart(St, x))) =>
            /\ touchStartX' = x
            /\ currentIndex' = currentIndex
            /\ pendingSwaps' = pendingSwaps]_vars

\* A swipe of 51 from 101 to 50 has moved three photos from 0 to 1.
C11_Witness ==
  /\ Ready
  /\ photos = 3
  /\ touchStartX = 101
  /\ touchEndX = 50
  /\ currentIndex = 1
  /\ mainSrc = 0
  /\ pendingSwaps = <<1>>

\* C12: when the gallery root is absent or the page has no photos,
\* initialization adds no listener and starts no timer, autoplay enabled or
\* not, so that afterwards no click, key, touch or timer event changes
\* currentIndex or isPlaying.
C12_RefusedInitIsInert ==
  /\ [](phase = "refused" =>
          /\ ~listening
          /\ timers = <<>>
          /\ ~isPlaying
          /\ currentIndex = 0)
  /\ [][phase = "refused" =>
          /\ currentIndex' = currentIndex
          /\ isPlaying' = isPlaying
          /\ timers' = timers]_vars

\* A page with a gallery root but no photos, autoplay enabled: a full autoplay
\* interval has passed and a dot was clicked after it.
C12_Witness ==
  /\ phase = "refused"
  /\ autoplay
  /\ galleryContainer
  /\ quietMs = autoplayInterval
  /\ lastRejected

\* C13: immediately after a successful initialization currentIndex is 0 and
\* the gallery is Running (isPlaying, exactly one live timer) if and only if
\* the autoplay option is enabled; otherwise it is Stopped with no timer.
C13_InitFollowsAutoplayOption ==
  [][(InitGallery /\ initOk) =>
       /\ phase' = "ready"
       /\ currentIndex' = 0
       /\ isPlaying' <=> autoplay
       /\ autoplay =>
            /\ Cardinality(DOMAIN timers') = 1
            /\ autoplayIntervalId' \in DOMAIN timers'
            /\ timers'[autoplayIntervalId'] = autoplayInterval
       /\ ~autoplay => timers' = <<>>]_vars

\* Three photos with autoplay disabled, right after initialization: Stopped,
\* and no play or pause button was ever switched.
C13_Witness ==
  /\ Ready
  /\ ~autoplay
  /\ photos = 3
  /\ currentIndex = 0
  /\ ~isPlaying
  /\ timers = <<>>
  /\ playBtnShown = "unset"
  /\ pendingSwaps = <<0>>

ArrowKeys == {"ArrowLeft", "ArrowRight"}

\* C14: no navigation operation (next, previous, go-to, swipe, arrow key,
\* opening the lightbox on a photo, autoplay tick) changes isPlaying.
C14_NavigationKeepsPlayState ==
  [][(\/ ClickNext
      \/ ClickPrev
      \/ GoTo
      \/ TouchStart
      \/ TouchEnd
      \/ \E k \in ArrowKeys : Handle(dispatchKeydown(St, k))
      \/ ClickPhoto
      \/ LightboxNext
      \/ LightboxPrev
      \/ TimerTick) => isPlaying' = isPlaying]_vars

\* Paused, then navigated to the last of three photos: still Stopped, the
\* play button showing and no timer.
C14_Witness ==
  /\ Ready
  /\ photos = 3
  /\ ~isPlaying
  /\ timers = <<>>
  /\ playBtnShown = "play"
  /\ currentIndex = 2
  /\ pendingSwaps # <<>>
  /\ quietMs = 0

\* C15: one ArrowRight (ArrowLeft) key press moves currentIndex by exactly
\* one advance (retreat) step in every reachable state, the lightbox open or
\* not; a key press never advances twice.
C15_ArrowKeyMovesOneStep ==
  [][/\ (Ready /\ Handle(dispatchKeydown(St, "ArrowRight"))) =>
          currentIndex' = Succ(currentIndex, photos)
     /\ (Ready /\ Handle(dispatchKeydown(St, "ArrowLeft"))) =>
          currentIndex' = Pred(currentIndex, photos)]_vars

\* C16: a navigation is one atomic transition: in every state between events
\* exactly one thumbnail is active and it is the one at currentIndex, the
\* counter reads (currentIndex + 1) / count, the progress fraction is
\* (currentIndex + 1) / count, and the step that changed the index while
\* Running left exactly one timer, restarted with the full interval.
C16_NavigationIsAtomic ==
  /\ [](Ready =>
          /\ activeThumbs = {currentIndex}
          /\ counterText = <<currentIndex + 1, photos>>
          /\ progressWidth.num = (currentIndex + 1) * 100
          /\ progressWidth.den = photos)
  /\ [][(Ready /\ isPlaying' /\
           (currentIndex' # currentIndex \/
            Len(pendingSwaps') > Len(pendingSwaps))) =>
          /\ Cardinality(DOMAIN timers') = 1
          /\ \A id \in DOMAIN timers' : timers'[id] = autoplayInterval]_vars

\* Running on the last of three photos right after a navigation: the main
\* image still shows another photo, the other surfaces already follow.
C16_Witness ==
  /\ Ready
  /\ photos = 3
  /\ isPlaying
  /\ currentIndex = 2
  /\ pendingSwaps # <<>>
  /\ mainSrc # currentIndex
  /\ activeThumbs = {2}
  /\ counterText = <<3, 3>>
  /\ quietMs = 0

\* C17: while autoplay is Running and the page is left alone, ticks keep
\* firing: each tick advances by exactly one step and leaves a single timer
\* with the full interval, so from every Running state currentIndex takes
\* every value below the photo count again; autoplay never stalls.
C17_AutoplayKeepsCycling ==
  /\ [][TimerTick =>
          /\ currentIndex' = Succ(currentIndex, photos)
          /\ isPlaying'
          /\ Cardinality(DOMAIN timers') = 1
          /\ \A id \in DOMAIN timers' : timers'[id] = autoplayInterval]_vars
  /\ \A i \in 0 .. (MaxCount - 1) :
       [](Ready /\ isPlaying /\ i < photos => <>(currentIndex = i))

\* Three photos left alone: ticks have gone round and the index is back at 0
\* while the main image still shows the last photo.
C17_Witness ==
  /\ Ready
  /\ photos = 3
  /\ isPlaying
  /\ currentIndex = 0
  /\ mainSrc = 2
  /\ pendingSwaps = <<0>>
  /\ Cardinality(DOMAIN timers) = 1

\* C18: page scroll is suppressed exactly when the lightbox is visible, in
\* every reachable state, and navigation, play/pause and timer ticks change
\* neither the lightbox's visibility nor the scroll suppression.
C18_ScrollLockFollowsLightbox ==
  /\ []((bodyOverflow = "hidden") <=> (lightboxDisplay # "none"))
  /\ [][(\/ ClickNext
         \/ ClickPrev
         \/ GoTo
         \/ TouchStart
         \/ TouchEnd
         \/ \E k \in ArrowKeys \cup {" "} : Handle(dispatchKeydown(St, k))
         \/ ClickPlay
         \/ ClickPause
         \/ LightboxNext
         \/ LightboxPrev
         \/ TimerTick
         \/ FireSwap) =>
          /\ lightboxDisplay' = lightboxDisplay
          /\ bodyOverflow' = bodyOverflow]_vars

\* The lightbox was opened on photo 0 and closed again, and the gallery has
\* since moved on to the last of three photos: the page scrolls again.
C18_Witness ==
  /\ Ready
  /\ photos = 3
  /\ lightboxDisplay = "none"
  /\ bodyOverflow = "auto"
  /\ lightboxImage = 0
  /\ currentIndex = 2

\* C19: with the enableKeyboard option off, no key press (ArrowLeft,
\* ArrowRight, Space, Escape) changes currentIndex or isPlaying in any
\* reachable state, the lightbox open or not.
C19_KeysInertWhenKeyboardDisabled ==
  [][(~enableKeyboard /\ KeyDown) =>
       /\ currentIndex' = currentIndex
       /\ isPlaying' = isPlaying]_vars

====
